---- MODULE Spec2Model ----
(***************************************************************************)
(* TrustContract (src/src/lib.rs): Legacy Vault deadman switch, Security   *)
(* Circle, Medical Emergency and Panic Button, over the persistent store   *)
(* of the host.  Every public function is one atomic transaction: a panic  *)
(* (panic!, expect, failed require_auth, checked arithmetic) aborts the    *)
(* invocation and the host discards the writes it made.                    *)
(*                                                                         *)
(* u64 timestamps.  A u64 value v is represented by the integer r with     *)
(* r = v (mod 2^64) and -2^31 < r < 2^31: r >= 0 stands for v = r, r < 0   *)
(* stands for v = 2^64 - |r|, the values a wrapped subtraction produces.   *)
(* All magnitudes of the model stay far below 2^31, so the representation  *)
(* is exact for 64-bit arithmetic.                                         *)
(***************************************************************************)
EXTENDS Integers, Sequences, FiniteSets, TLC

\* ---------------------------------------------------------------- bounds
\* Clock readings lie within Slack seconds of the protocol's instants.
Slack == 1
\* Largest panic counter / medical vote count / trust score the model reaches.
MaxPanicVotes == 4
MaxMedicalVotes == 4
MaxTrust == 11

\* ------------------------------------------------------------- constants
\* lib.rs:118  let deadman_limit = 15_552_000;
DEADMAN_LIMIT == 15552000
\* lib.rs:197  ... - 604_800
RESIDUAL == 604800
\* lib.rs:137  if witnesses.len() > 5
MAX_WITNESSES == 5
\* lib.rs:168  if emergency.votes_collected >= 3
MEDICAL_THRESHOLD == 3
\* lib.rs:189  if votes >= 3
PANIC_THRESHOLD == 3
\* lib.rs:217  merchant.trust_score += 10
STAKE_BONUS == 10
\* lib.rs:224  if target_data.trust_score < 100
TRUST_CAP == 100

\* Variant of lib.rs:197 that forgets the 7-day residual.
time_warpNoResidual == DEADMAN_LIMIT

\* lib.rs:197  let time_warp = 15_552_000 - 604_800;
time_warp == DEADMAN_LIMIT - RESIDUAL

\* -------------------------------------------------------------- accounts
Accounts == {"A", "B", "C"}
\* Accounts that act as `user` / `target_user`; records are keyed by account
\* and no function reads a record of another key.
Targets == {"A"}
\* Accounts named as heir: the owner itself, or another account.
Heirs == {"A", "B"}

\* Candidate witness lists passed to assign_witnesses: lengths 0, 5 and 6,
\* naming B and the owner itself (entries need not be distinct); C is in none.
Ring == <<"B", "A">>
Cyc(n) == [i \in 1..n |-> Ring[((i - 1) % 2) + 1]]
WitnessLists == {Cyc(n) : n \in {0, MAX_WITNESSES, MAX_WITNESSES + 1}}

\* Clock readings: within Slack of 0, of 173 days and of 180 days.
Instants ==
    {b + e : b \in {0, DEADMAN_LIMIT - RESIDUAL, DEADMAN_LIMIT}, e \in (0 - Slack)..Slack}
        \cap Nat

VARIABLES
    now,             \* env.ledger().timestamp()
    overflow_checks, \* build profile: TRUE = arithmetic overflow panics, FALSE = wraps
    vault,           \* DataKey::Vault(addr)      -> LegacyVault
    witnesses,       \* DataKey::Witnesses(addr)  -> Vec<Address>
    emergency,       \* DataKey::Emergency(addr)  -> MedicalEmergency
    panic_votes,     \* DataKey::PanicVotes(addr) -> u32
    merchant,        \* DataKey::Merchant(addr)   -> Merchant
    last,            \* the invocation whose result is being returned to its caller:
                     \* function, signer, outcome; Idle between invocations
    \* Call history, kept beside the store by AuditSpec only (Spec and SoloSpec
    \* leave it empty); no function of the contract reads it.
    owner_at,        \* per account: the timestamp of the owner's last successful
                     \* create_vault or ping_heartbeat ({} when there was none)
    warp_at          \* per account: the timestamp of the last panic_button executed
                     \* with the counter at the threshold or above since that
                     \* owner call ({} when there was none)

store == <<vault, witnesses, emergency, panic_votes, merchant>>
vars ==
    <<now, overflow_checks, vault, witnesses, emergency, panic_votes, merchant, last,
      owner_at, warp_at>>

\* ------------------------------------------------------- u64 arithmetic
\* a - b (mod 2^64), on representatives.
USub(a, b) == a - b
\* unsigned a < b, on representatives (a negative representative is >= 2^63).
ULt(a, b) ==
    IF (a >= 0) = (b >= 0) THEN a < b ELSE a >= 0
\* a - b underflows as unsigned arithmetic.
Underflows(a, b) == ULt(a, b)

\* ------------------------------------------------------- storage helpers
Has(m, k) == k \in DOMAIN m
Set(m, k, v) == [x \in (DOMAIN m) \cup {k} |-> IF x = k THEN v ELSE m[x]]

\* Variant in which the writes made before the panic stay in the store.
KeepWrites(pre, post) == post

\* Host abort: a panicking invocation commits none of its writes.
Revert(pre, post) == pre

\* arg: the witness list handed to assign_witnesses, << >> for the other functions.
Outcome(op, signer, target, arg, res) ==
    [op |-> op, signer |-> signer, target |-> target, arg |-> arg, res |-> res]
OK == "ok"
\* Functions that call no require_auth read no signer.
NoSigner == "-"
\* No invocation is executing; the host takes the next transaction.
Idle == Outcome("idle", NoSigner, NoSigner, << >>, OK)
Ready == last = Idle

\* A failed invocation: nothing but the outcome changes.  x.require_auth()
\* fails ("Unauthorized") when the transaction's signer is not x.
Fail(op, signer, target, arg, res) ==
    /\ last' = Outcome(op, signer, target, arg, res)
    /\ UNCHANGED <<now, overflow_checks, vault, witnesses, emergency, panic_votes, merchant>>

Init ==
    /\ now = 0
    /\ overflow_checks \in BOOLEAN
    /\ vault = << >>
    /\ witnesses = << >>
    /\ emergency = << >>
    /\ panic_votes = << >>
    /\ merchant = << >>
    /\ last = Idle
    /\ owner_at = [t \in Targets |-> {}]
    /\ warp_at = [t \in Targets |-> {}]

\* The ledger closes: the clock moves to a later instant.
Tick ==
    /\ \E t \in Instants : t > now /\ now' = t
    /\ last' = Idle
    /\ UNCHANGED <<overflow_checks, vault, witnesses, emergency, panic_votes, merchant>>

\* lib.rs:77-87
create_vault(signer, user, heir) ==
    IF signer # user
    THEN Fail("create_vault", signer, user, << >>, "Unauthorized")
    ELSE /\ vault' = Set(vault, user,
                [heir |-> heir, last_heartbeat |-> now,
                 is_locked |-> TRUE, is_frozen |-> FALSE])
         /\ last' = Outcome("create_vault", signer, user, << >>, OK)
         /\ UNCHANGED <<now, overflow_checks, witnesses, emergency, panic_votes, merchant>>

\* Variant of lib.rs:96-102 that resets the timer but leaves the freeze flag.
PingKeepsFreeze(v) == [v EXCEPT !.last_heartbeat = now]

\* Variant of lib.rs:96-102 that clears the freeze flag but leaves the timer.
PingKeepsTimer(v) == [v EXCEPT !.is_frozen = FALSE]

\* lib.rs:96-102  the freeze flag is cleared and the timer reset
Ping(v) ==
    [v EXCEPT !.is_frozen = IF v.is_frozen THEN FALSE ELSE v.is_frozen,
              !.last_heartbeat = now]

\* lib.rs:90-104
ping_heartbeat(signer, user) ==
    IF signer # user
    THEN Fail("ping_heartbeat", signer, user, << >>, "Unauthorized")
    ELSE IF ~Has(vault, user)
    THEN Fail("ping_heartbeat", signer, user, << >>, "Vault not found")
    ELSE /\ vault' = Set(vault, user, Ping(vault[user]))
         /\ last' = Outcome("ping_heartbeat", signer, user, << >>, OK)
         /\ UNCHANGED <<now, overflow_checks, witnesses, emergency, panic_votes, merchant>>

\* Off-by-one variant of the comparison at lib.rs:121 (<= for <).
StillAliveLe(time_elapsed) == ULt(time_elapsed, DEADMAN_LIMIT + 1)

\* lib.rs:121  if time_elapsed < deadman_limit { panic!(..) }
StillAlive(time_elapsed) == ULt(time_elapsed, DEADMAN_LIMIT)

\* Variant of lib.rs:114 that asks the owner, not the heir, to authorize.
ClaimantOwner(target_user) == target_user

\* lib.rs:111-114  the address whose authorization claim_legacy requires
Claimant(target_user) == vault[target_user].heir

\* Variant of lib.rs:107-128 in which the release point (lib.rs:125) records
\* the release in the vault by clearing is_locked.
claim_legacyUnlocks(signer, target_user) ==
    IF ~Has(vault, target_user)
    THEN Fail("claim_legacy", signer, target_user, << >>, "Vault not found")
    ELSE IF signer # Claimant(target_user)
    THEN Fail("claim_legacy", signer, target_user, << >>, "Unauthorized")
    ELSE IF overflow_checks /\ Underflows(now, vault[target_user].last_heartbeat)
    THEN Fail("claim_legacy", signer, target_user, << >>, "attempt to subtract with overflow")
    ELSE IF StillAlive(USub(now, vault[target_user].last_heartbeat))
    THEN Fail("claim_legacy", signer, target_user, << >>, "Owner is still alive")
    ELSE /\ vault' = Set(vault, target_user, [vault[target_user] EXCEPT !.is_locked = FALSE])
         /\ last' = Outcome("claim_legacy", signer, target_user, << >>, OK)
         /\ UNCHANGED <<now, overflow_checks, witnesses, emergency, panic_votes, merchant>>

\* lib.rs:107-128
claim_legacy(signer, target_user) ==
    IF ~Has(vault, target_user)
    THEN Fail("claim_legacy", signer, target_user, << >>, "Vault not found")
    ELSE IF signer # Claimant(target_user)
    THEN Fail("claim_legacy", signer, target_user, << >>, "Unauthorized")
    ELSE IF overflow_checks /\ Underflows(now, vault[target_user].last_heartbeat)
    THEN Fail("claim_legacy", signer, target_user, << >>, "attempt to subtract with overflow")
    ELSE IF StillAlive(USub(now, vault[target_user].last_heartbeat))
    THEN Fail("claim_legacy", signer, target_user, << >>, "Owner is still alive")
    ELSE \* release point: the transfer is a stub, nothing is written
         /\ last' = Outcome("claim_legacy", signer, target_user, << >>, OK)
         /\ UNCHANGED <<now, overflow_checks, vault, witnesses, emergency, panic_votes, merchant>>

\* Variant of lib.rs:137 with >= for >.
TooManyWitnessesGe(ws) == Len(ws) >= MAX_WITNESSES

\* lib.rs:137  if witnesses.len() > 5 { panic!(..) }
TooManyWitnesses(ws) == Len(ws) > MAX_WITNESSES

\* lib.rs:135-139
assign_witnesses(signer, user, ws) ==
    IF signer # user
    THEN Fail("assign_witnesses", signer, user, ws, "Unauthorized")
    ELSE IF TooManyWitnesses(ws)
    THEN Fail("assign_witnesses", signer, user, ws, "Max 5 witnesses allowed")
    ELSE /\ witnesses' = Set(witnesses, user, ws)
         /\ last' = Outcome("assign_witnesses", signer, user, ws, OK)
         /\ UNCHANGED <<now, overflow_checks, vault, emergency, panic_votes, merchant>>

\* Variant of lib.rs:144 without the has-check: every declaration starts afresh.
NeverActive(target_user) == FALSE

\* Variant of lib.rs:144 that lets an unlocked emergency be declared again.
AlreadyActiveUnlessUnlocked(target_user) ==
    Has(emergency, target_user) /\ ~emergency[target_user].is_unlocked

\* lib.rs:144  if env.storage().persistent().has(&key) { panic!(..) }
AlreadyActive(target_user) == Has(emergency, target_user)

\* lib.rs:142-152 (no require_auth)
declare_emergency(target_user) ==
    IF AlreadyActive(target_user)
    THEN Fail("declare_emergency", NoSigner, target_user, << >>, "Emergency already active")
    ELSE /\ emergency' = Set(emergency, target_user,
                [target_user |-> target_user, votes_collected |-> 0, is_unlocked |-> FALSE])
         /\ last' = Outcome("declare_emergency", NoSigner, target_user, << >>, OK)
         /\ UNCHANGED <<now, overflow_checks, vault, witnesses, panic_votes, merchant>>

\* Variant of lib.rs:159/180 that only requires a non-empty circle.
ContainsAnyone(circle, a) == Len(circle) > 0

\* Vec::contains
Contains(circle, a) == \E i \in 1..Len(circle) : circle[i] = a

\* Variant of lib.rs:168 with > for >=.
CountVoteGt(e) ==
    LET n == e.votes_collected + 1
    IN  [e EXCEPT !.votes_collected = n,
                  !.is_unlocked = IF n > MEDICAL_THRESHOLD THEN TRUE ELSE e.is_unlocked]

\* Variant of lib.rs:165 that counts the first vote only, as a per-voter
\* ledger would when one witness votes repeatedly.
CountVoteFirstOnly(e) ==
    LET n == IF e.votes_collected = 0 THEN 1 ELSE e.votes_collected
    IN  [e EXCEPT !.votes_collected = n,
                  !.is_unlocked = IF n >= MEDICAL_THRESHOLD THEN TRUE ELSE e.is_unlocked]

\* lib.rs:165-170  the vote is counted and the unlock flag latched
CountVote(e) ==
    LET n == e.votes_collected + 1
    IN  [e EXCEPT !.votes_collected = n,
                  !.is_unlocked = IF n >= MEDICAL_THRESHOLD THEN TRUE ELSE e.is_unlocked]

\* lib.rs:154-172
witness_vote_medical(signer, witness, target_user) ==
    IF signer # witness
    THEN Fail("witness_vote_medical", signer, target_user, << >>, "Unauthorized")
    ELSE IF ~Has(witnesses, target_user)
    THEN Fail("witness_vote_medical", signer, target_user, << >>, "No Circle found")
    ELSE IF ~Contains(witnesses[target_user], witness)
    THEN Fail("witness_vote_medical", signer, target_user, << >>, "Not a witness")
    ELSE IF ~Has(emergency, target_user)
    THEN Fail("witness_vote_medical", signer, target_user, << >>, "No emergency")
    ELSE /\ emergency[target_user].votes_collected < MaxMedicalVotes  \* u32, far from 2^32
         /\ emergency' = Set(emergency, target_user, CountVote(emergency[target_user]))
         /\ last' = Outcome("witness_vote_medical", signer, target_user, << >>, OK)
         /\ UNCHANGED <<now, overflow_checks, vault, witnesses, panic_votes, merchant>>

\* lib.rs:184  .unwrap_or(0)
PanicVotesOf(a) == IF Has(panic_votes, a) THEN panic_votes[a] ELSE 0

\* Variant of lib.rs:189 that freezes on any vote.
TriggersAlways(votes) == votes >= 1

\* Variant of lib.rs:189 that triggers one vote early.
TriggersEarly(votes) == votes >= PANIC_THRESHOLD - 1

\* lib.rs:189  if votes >= 3
Triggers(votes) == votes >= PANIC_THRESHOLD

\* Variant of lib.rs:192 that flips the flag instead of setting it.
FreezeToggles(v) ==
    [v EXCEPT !.is_frozen = ~v.is_frozen, !.last_heartbeat = USub(now, time_warp)]

\* lib.rs:192-198  freeze and time-warp
Freeze(v) ==
    [v EXCEPT !.is_frozen = TRUE, !.last_heartbeat = USub(now, time_warp)]

\* lib.rs:175-202
panic_button(signer, witness, target_user) ==
    IF signer # witness
    THEN Fail("panic_button", signer, target_user, << >>, "Unauthorized")
    ELSE IF ~Has(witnesses, target_user)
    THEN Fail("panic_button", signer, target_user, << >>, "No Circle found")
    ELSE IF ~Contains(witnesses[target_user], witness)
    THEN Fail("panic_button", signer, target_user, << >>, "Not a witness")
    ELSE
      LET votes == PanicVotesOf(target_user) + 1
          written == Set(panic_votes, target_user, votes)   \* lib.rs:186
      IN  /\ votes <= MaxPanicVotes                                \* u32, far from 2^32
          /\ UNCHANGED <<now, overflow_checks, witnesses, emergency, merchant>>
          /\ IF ~Triggers(votes)
             THEN /\ panic_votes' = written
                  /\ last' = Outcome("panic_button", signer, target_user, << >>, OK)
                  /\ UNCHANGED vault
             ELSE IF ~Has(vault, target_user)
             THEN /\ panic_votes' = Revert(panic_votes, written)
                  /\ last' = Outcome("panic_button", signer, target_user, << >>, "Vault not found")
                  /\ UNCHANGED vault
             ELSE IF overflow_checks /\ Underflows(now, time_warp)
             THEN /\ panic_votes' = Revert(panic_votes, written)
                  /\ last' = Outcome("panic_button", signer, target_user, << >>, "attempt to subtract with overflow")
                  /\ UNCHANGED vault
             ELSE /\ panic_votes' = written
                  /\ vault' = Set(vault, target_user, Freeze(vault[target_user]))
                  /\ last' = Outcome("panic_button", signer, target_user, << >>, OK)

\* lib.rs:210-213, 229-232  .unwrap_or(Merchant { trust_score: 0, bond_staked: false, .. })
\* (bzr_balance, badges, is_disputed, nickname and messages are never written
\*  with anything but their defaults)
MerchantOf(a) ==
    IF Has(merchant, a) THEN merchant[a] ELSE [trust_score |-> 0, bond_staked |-> FALSE]

\* lib.rs:208-219
stake(signer, user) ==
    IF signer # user
    THEN Fail("stake", signer, user, << >>, "Unauthorized")
    ELSE IF MerchantOf(user).bond_staked
    THEN Fail("stake", signer, user, << >>, "Already bonded")
    ELSE /\ merchant' = Set(merchant, user,
                [MerchantOf(user) EXCEPT !.bond_staked = TRUE,
                                         !.trust_score = @ + STAKE_BONUS])
         /\ last' = Outcome("stake", signer, user, << >>, OK)
         /\ UNCHANGED <<now, overflow_checks, vault, witnesses, emergency, panic_votes>>

\* lib.rs:221-226
vouch(signer, voucher, target) ==
    IF signer # voucher
    THEN Fail("vouch", signer, target, << >>, "Unauthorized")
    ELSE IF ~Has(merchant, target)
    THEN Fail("vouch", signer, target, << >>, "Target not found")
    ELSE /\ merchant[target].trust_score < MaxTrust
         /\ merchant' = Set(merchant, target,
                [merchant[target] EXCEPT !.trust_score =
                    IF @ < TRUST_CAP THEN @ + 1 ELSE @])
         /\ last' = Outcome("vouch", signer, target, << >>, OK)
         /\ UNCHANGED <<now, overflow_checks, vault, witnesses, emergency, panic_votes>>

\* lib.rs:228-234  read-only
get_trust(user) ==
    /\ last' = Outcome("get_trust", NoSigner, user, << >>, OK)
    /\ UNCHANGED <<now, overflow_checks, vault, witnesses, emergency, panic_votes, merchant>>

\* The result has been returned; the host is ready for the next transaction.
Return ==
    /\ ~Ready
    /\ last' = Idle
    /\ UNCHANGED <<now, overflow_checks, vault, witnesses, emergency, panic_votes, merchant>>

\* The invocation that has just executed, as the call history sees it.
\* lib.rs:80-86, 96-102: the owner's create_vault or ping_heartbeat went through.
OwnerCalled(t) ==
    /\ last'.op \in {"create_vault", "ping_heartbeat"}
    /\ last'.target = t /\ last'.res = OK

\* lib.rs:186-200: a panic_button went through with the counter at 3 or more.
Warped(t) ==
    /\ last'.op = "panic_button" /\ last'.target = t /\ last'.res = OK
    /\ panic_votes'[t] >= PANIC_THRESHOLD

\* The invocation is entered in the call history.
Record ==
    /\ owner_at' = [t \in Targets |-> IF OwnerCalled(t) THEN {now} ELSE owner_at[t]]
    /\ warp_at' = [t \in Targets |->
                     IF OwnerCalled(t) THEN {}
                     ELSE IF Warped(t) THEN {now} ELSE warp_at[t]]

\* The call history is not kept.
Unrecorded == UNCHANGED <<owner_at, warp_at>>

Next ==
    \/ Return /\ Unrecorded
    \/ Ready /\ Tick /\ Unrecorded
    \/ Ready /\ (\E s \in Accounts, u \in Targets, h \in Heirs : create_vault(s, u, h)) /\ Unrecorded
    \/ Ready /\ (\E s \in Accounts, u \in Targets : ping_heartbeat(s, u)) /\ Unrecorded
    \/ Ready /\ (\E s \in Accounts, u \in Targets : claim_legacy(s, u)) /\ Unrecorded
    \/ Ready /\ (\E s \in Accounts, u \in Targets, ws \in WitnessLists : assign_witnesses(s, u, ws)) /\ Unrecorded
    \/ Ready /\ (\E u \in Targets : declare_emergency(u)) /\ Unrecorded
    \/ Ready /\ (\E s \in Accounts, w \in Accounts, u \in Targets : witness_vote_medical(s, w, u)) /\ Unrecorded
    \/ Ready /\ (\E s \in Accounts, w \in Accounts, u \in Targets : panic_button(s, w, u)) /\ Unrecorded
    \/ Ready /\ (\E s \in Accounts, u \in Targets : stake(s, u)) /\ Unrecorded
    \/ Ready /\ (\E s \in Accounts, v \in Accounts, u \in Targets : vouch(s, v, u)) /\ Unrecorded
    \/ Ready /\ (\E u \in Targets : get_trust(u)) /\ Unrecorded

Spec == Init /\ [][Next]_vars

\* The same contract with one voter: B is the only account that ever calls
\* witness_vote_medical or panic_button (lib.rs:154-202); every other function
\* is called as in Next.
SoloVoter == "B"

SoloNext ==
    \/ Return /\ Unrecorded
    \/ Ready /\ Tick /\ Unrecorded
    \/ Ready /\ (\E s \in Accounts, u \in Targets, h \in Heirs : create_vault(s, u, h)) /\ Unrecorded
    \/ Ready /\ (\E s \in Accounts, u \in Targets : ping_heartbeat(s, u)) /\ Unrecorded
    \/ Ready /\ (\E s \in Accounts, u \in Targets : claim_legacy(s, u)) /\ Unrecorded
    \/ Ready /\ (\E s \in Accounts, u \in Targets, ws \in WitnessLists : assign_witnesses(s, u, ws)) /\ Unrecorded
    \/ Ready /\ (\E u \in Targets : declare_emergency(u)) /\ Unrecorded
    \/ Ready /\ (\E u \in Targets : witness_vote_medical(SoloVoter, SoloVoter, u)) /\ Unrecorded
    \/ Ready /\ (\E u \in Targets : panic_button(SoloVoter, SoloVoter, u)) /\ Unrecorded

SoloSpec == Init /\ [][SoloNext]_vars

\* The same contract with the call history kept: every call of the owner, the
\* heir and the witnesses (lib.rs:77-202), by every signer.
AuditNext ==
    \/ Return /\ Record
    \/ Ready /\ Tick /\ Record
    \/ Ready /\ (\E s \in Accounts, u \in Targets, h \in Heirs : create_vault(s, u, h)) /\ Record
    \/ Ready /\ (\E s \in Accounts, u \in Targets : ping_heartbeat(s, u)) /\ Record
    \/ Ready /\ (\E s \in Accounts, u \in Targets : claim_legacy(s, u)) /\ Record
    \/ Ready /\ (\E s \in Accounts, u \in Targets, ws \in WitnessLists : assign_witnesses(s, u, ws)) /\ Record
    \/ Ready /\ (\E u \in Targets : declare_emergency(u)) /\ Record
    \/ Ready /\ (\E s \in Accounts, w \in Accounts, u \in Targets : witness_vote_medical(s, w, u)) /\ Record
    \/ Ready /\ (\E s \in Accounts, w \in Accounts, u \in Targets : panic_button(s, w, u)) /\ Record

AuditSpec == Init /\ [][AuditNext]_vars

\* ================================================================ claims
Vault(t) == vault[t]
Called(op, t) == last.op = op /\ last.target = t
Succeeded(op, t) == Called(op, t) /\ last.res = OK
ByHeir(t) == Has(vault, t) /\ last.signer = vault[t].heir

\* C1: a claim_legacy call signed by the vault's stored heir fails ("Owner is
\* still alive") exactly when now - last_heartbeat < 15,552,000 and succeeds
\* exactly when now - last_heartbeat >= 15,552,000 (the difference taken as the
\* code takes it, in u64); for a vault created at 0 and untouched it fails at
\* 15,551,999 and succeeds at 15,552,000 and 15,552,001.
C1_ClaimThreshold ==
    \A t \in Targets :
        (Called("claim_legacy", t) /\ ByHeir(t)) =>
            /\ (now - Vault(t).last_heartbeat < 15552000
                    => last.res = "Owner is still alive")
            /\ (now - Vault(t).last_heartbeat >= 15552000 => last.res = OK)
            /\ (Vault(t).last_heartbeat = 0 /\ now = 15551999 => last.res # OK)
            /\ (Vault(t).last_heartbeat = 0 /\ now \in {15552000, 15552001}
                    => last.res = OK)

\* C1 witness: the heir's claim succeeds at exactly 180 days after a heartbeat at 0.
C1_Witness ==
    \E t \in Targets :
        /\ Succeeded("claim_legacy", t) /\ ByHeir(t)
        /\ Vault(t).last_heartbeat = 0 /\ now = 15552000 /\ ~Vault(t).is_frozen

\* C2: a successful panic_button call at clock time T that brings the counter
\* to 3 leaves is_frozen = TRUE and last_heartbeat = T - 14,947,200 (u64
\* arithmetic); a frozen vault is exactly as such a call left it (any step that
\* touches it either unfreezes it or is another time-warp), and while it is so
\* every heir-signed claim_legacy before T + 604,800 fails and every one at or
\* after T + 604,800 succeeds.
C2_AfterThreshold ==
    \A t \in Targets :
        (Succeeded("panic_button", t) /\ PanicVotesOf(t) = 3) =>
            /\ Has(vault, t)
            /\ Vault(t).is_frozen
            /\ Vault(t).last_heartbeat = now - 14947200
C2_FrozenClaim ==
    \A t \in Targets :
        (Called("claim_legacy", t) /\ ByHeir(t) /\ Vault(t).is_frozen) =>
            LET T == Vault(t).last_heartbeat + 14947200
            IN  /\ (now < T + 604800 => last.res = "Owner is still alive")
                /\ (now >= T + 604800 => last.res = OK)
C2_FrozenSinceWarp ==
    \A t \in Targets :
        (/\ Has(vault', t)
         /\ vault'[t].is_frozen
         /\ (~Has(vault, t) \/ vault'[t] # vault[t])) =>
            /\ last'.op = "panic_button" /\ last'.target = t /\ last'.res = OK
            /\ vault'[t].last_heartbeat = now - 14947200
C2_PanicFreeze ==
    [](C2_AfterThreshold /\ C2_FrozenClaim) /\ [][C2_FrozenSinceWarp]_vars

\* C2 witness: the heir claims a frozen vault exactly 604,800 s after the
\* third panic vote, and succeeds.
C2_Witness ==
    \E t \in Targets :
        /\ Succeeded("claim_legacy", t) /\ ByHeir(t)
        /\ Vault(t).is_frozen /\ PanicVotesOf(t) = 3
        /\ now = Vault(t).last_heartbeat + 14947200 + 604800

\* C3 (as claimed): every successful panic_button call that raises the counter
\* to 4 or more adds one to the counter and leaves the vault's is_frozen and
\* last_heartbeat as they were before the call.  Stated for the build with
\* overflow checks, where no timestamp ever wraps.
C3_NoRetrigger ==
    [][\A t \in Targets :
        (/\ overflow_checks
         /\ last'.op = "panic_button" /\ last'.target = t /\ last'.res = OK
         /\ Has(panic_votes', t) /\ panic_votes'[t] >= 4) =>
            /\ panic_votes'[t] = PanicVotesOf(t) + 1
            /\ Has(vault, t) /\ Has(vault', t)
            /\ vault'[t].is_frozen = vault[t].is_frozen
            /\ vault'[t].last_heartbeat = vault[t].last_heartbeat]_vars

\* C4 (as claimed): a successful ping_heartbeat sets last_heartbeat to the
\* clock value, strictly greater than the value it held before, and leaves
\* is_frozen = FALSE.
C4_PingStrictlyIncreases ==
    [][\A t \in Targets :
        (last'.op = "ping_heartbeat" /\ last'.target = t /\ last'.res = OK) =>
            /\ vault'[t].last_heartbeat = now
            /\ ULt(vault[t].last_heartbeat, vault'[t].last_heartbeat)
            /\ ~vault'[t].is_frozen]_vars

\* C4 (amended): a successful ping_heartbeat is signed by the owner of an
\* existing vault, sets last_heartbeat to the call-time clock value and leaves
\* is_frozen = FALSE whatever it was before; heir and is_locked are kept.
C4_PingResets ==
    [][\A t \in Targets :
        (last'.op = "ping_heartbeat" /\ last'.target = t /\ last'.res = OK) =>
            /\ last'.signer = t
            /\ Has(vault, t) /\ Has(vault', t)
            /\ vault'[t].last_heartbeat = now'
            /\ now' = now
            /\ vault'[t].is_frozen = FALSE
            /\ vault'[t].heir = vault[t].heir
            /\ vault'[t].is_locked = vault[t].is_locked]_vars

\* C4 witness: the owner has pinged a vault that three panic votes had frozen.
C4_Witness ==
    \E t \in Targets :
        /\ Succeeded("ping_heartbeat", t)
        /\ PanicVotesOf(t) >= 3
        /\ ~Vault(t).is_frozen /\ Vault(t).last_heartbeat = now

\* C5: the medical unlock is a one-way latch.  is_unlocked holds exactly when
\* votes_collected >= 3; it turns true only in a successful
\* witness_vote_medical that takes the count to 3; and once true, the record
\* stays and the flag stays true across every step.
C5_UnlockedIffQuorum ==
    \A t \in Targets :
        Has(emergency, t) =>
            (emergency[t].is_unlocked <=> emergency[t].votes_collected >= 3)
C5_Latch ==
    \A t \in Targets :
        /\ (Has(emergency, t) /\ emergency[t].is_unlocked) =>
                (Has(emergency', t) /\ emergency'[t].is_unlocked)
        /\ (/\ Has(emergency', t) /\ emergency'[t].is_unlocked
            /\ ~(Has(emergency, t) /\ emergency[t].is_unlocked)) =>
                /\ last'.op = "witness_vote_medical" /\ last'.target = t
                /\ last'.res = OK
                /\ Has(emergency, t) /\ emergency[t].votes_collected = 2
                /\ emergency'[t].votes_collected = 3
C5_MedicalLatch == []C5_UnlockedIffQuorum /\ [][C5_Latch]_vars

\* C5 witness: a vote has been cast after the unlock, and the flag is still set.
C5_Witness ==
    \E t \in Targets :
        /\ Succeeded("witness_vote_medical", t)
        /\ emergency[t].votes_collected = 4 /\ emergency[t].is_unlocked

\* C6: an owner-signed assign_witnesses fails ("Max 5 witnesses allowed") for
\* every list of more than 5 entries and leaves the stored circle unchanged;
\* it succeeds for every list of 0 to 5 entries and stores exactly that list;
\* every stored circle has at most 5 entries.
C6_CircleBounded ==
    \A t \in Targets : Has(witnesses, t) => Len(witnesses[t]) <= 5
C6_AssignOutcome ==
    \A t \in Targets :
        (Called("assign_witnesses", t) /\ last.signer = t) =>
            /\ (Len(last.arg) > 5 => last.res = "Max 5 witnesses allowed")
            /\ (Len(last.arg) <= 5 =>
                    last.res = OK /\ Has(witnesses, t) /\ witnesses[t] = last.arg)
C6_FailedAssignKeepsCircle ==
    (last'.op = "assign_witnesses" /\ last'.res # OK) => witnesses' = witnesses
C6_AssignWitnesses ==
    [](C6_CircleBounded /\ C6_AssignOutcome) /\ [][C6_FailedAssignKeepsCircle]_vars

\* C6 witness: the owner's list of 6 has been refused while a circle of 5,
\* stored by an earlier call, is in place.
C6_Witness ==
    \E t \in Targets :
        /\ Called("assign_witnesses", t) /\ last.signer = t
        /\ Len(last.arg) = 6 /\ last.res = "Max 5 witnesses allowed"
        /\ Has(witnesses, t) /\ Len(witnesses[t]) = 5

\* C7: declare_emergency on a target that has an emergency record fails
\* ("Emergency already active") and leaves the record as it is, unlocked or
\* not; no step removes a record, lowers its votes_collected or clears its
\* is_unlocked.
C7_Redeclare ==
    \A t \in Targets :
        Has(emergency, t) =>
            /\ Has(emergency', t)
            /\ emergency'[t].votes_collected >= emergency[t].votes_collected
            /\ (emergency[t].is_unlocked => emergency'[t].is_unlocked)
            /\ (last'.op = "declare_emergency" /\ last'.target = t) =>
                    /\ last'.res = "Emergency already active"
                    /\ emergency'[t] = emergency[t]
C7_DeclareOnce == [][C7_Redeclare]_vars

\* C7 witness: a second declare_emergency has been refused on an unlocked record.
C7_Witness ==
    \E t \in Targets :
        /\ Called("declare_emergency", t)
        /\ last.res = "Emergency already active"
        /\ Has(emergency, t) /\ emergency[t].is_unlocked

\* C8: every failing invocation leaves the whole store unchanged; a
\* panic_button call that would bring the counter to 3 or more while the
\* target has no vault fails ("Vault not found") and the counter keeps its
\* value; without a vault the counter is never 3 or more.
C8_FailureKeepsStore == last'.res # OK => store' = store
C8_NoVaultBelowThreshold ==
    \A t \in Targets :
        /\ ~Has(vault, t) => PanicVotesOf(t) < 3
        /\ (Called("panic_button", t) /\ last.res = "Vault not found") =>
                ~Has(vault, t) /\ PanicVotesOf(t) = 2
C8_Atomic == []C8_NoVaultBelowThreshold /\ [][C8_FailureKeepsStore]_vars

\* C8 witness: the third panic vote has failed for want of a vault; the
\* counter reads 2.
C8_Witness ==
    \E t \in Targets :
        /\ Called("panic_button", t) /\ last.res = "Vault not found"
        /\ PanicVotesOf(t) = 2 /\ ~Has(vault, t)

\* C9 (as claimed): claim_legacy fails whenever it is signed by the owner, or
\* by any account other than the stored heir.
C9_OwnerOrNonHeirFails ==
    \A t \in Targets :
        (/\ Called("claim_legacy", t) /\ Has(vault, t)
         /\ (last.signer = t \/ last.signer # Vault(t).heir)) => last.res # OK

\* C9 (amended): claim_legacy succeeds only when signed by the heir stored in
\* the vault; a call signed by any other account fails ("Unauthorized") for
\* every vault state and clock value; a call signed by the owner fails unless
\* the owner is itself the stored heir.
C9_OnlyStoredHeir ==
    \A t \in Targets :
        /\ Succeeded("claim_legacy", t) => Has(vault, t) /\ last.signer = Vault(t).heir
        /\ (Called("claim_legacy", t) /\ Has(vault, t) /\ last.signer # Vault(t).heir)
                => last.res = "Unauthorized"
        /\ (Called("claim_legacy", t) /\ Has(vault, t) /\ last.signer = t
                /\ Vault(t).heir # t) => last.res # OK

\* C9 witness: the owner, who is not the heir, has called claim_legacy after
\* the 180 days have elapsed, and failed.
C9_Witness ==
    \E t \in Targets :
        /\ Called("claim_legacy", t) /\ Has(vault, t)
        /\ last.signer = t /\ Vault(t).heir # t
        /\ now - Vault(t).last_heartbeat >= 15552000
        /\ last.res = "Unauthorized"

\* C10 (as claimed): the last_heartbeat of an existing vault changes only in
\* the owner's ping_heartbeat and in the panic_button call that takes the
\* counter from 2 to 3.
C10_OnlyPingAndThreshold ==
    [][\A t \in Targets :
        (/\ Has(vault, t) /\ Has(vault', t)
         /\ vault'[t].last_heartbeat # vault[t].last_heartbeat) =>
            \/ last'.op = "ping_heartbeat" /\ last'.target = t
            \/ /\ last'.op = "panic_button" /\ last'.target = t
               /\ PanicVotesOf(t) = 2 /\ panic_votes'[t] = 3]_vars

\* C10 (amended): the last_heartbeat of an existing vault changes only in a
\* successful ping_heartbeat or create_vault signed by the owner (create_vault
\* overwrites the vault) and in a successful panic_button call that leaves
\* the counter at 3 or more; every other step leaves it unchanged.
C10_Writers ==
    [][\A t \in Targets :
        (/\ Has(vault, t) /\ Has(vault', t)
         /\ vault'[t].last_heartbeat # vault[t].last_heartbeat) =>
            /\ last'.target = t /\ last'.res = OK
            /\ \/ last'.op = "ping_heartbeat" /\ last'.signer = t
               \/ last'.op = "create_vault" /\ last'.signer = t
               \/ /\ last'.op = "panic_button"
                  /\ panic_votes'[t] = PanicVotesOf(t) + 1
                  /\ panic_votes'[t] >= 3]_vars

\* C10 witness: create_vault has overwritten a vault that the panic quorum had
\* frozen and time-warped: its last_heartbeat is the clock value again.
C10_Witness ==
    \E t \in Targets :
        /\ Succeeded("create_vault", t)
        /\ PanicVotesOf(t) >= 3
        /\ Vault(t).last_heartbeat = now /\ ~Vault(t).is_frozen

\* C11 (as claimed): under the monotonic clock, the last_heartbeat of a vault
\* (an unsigned 64-bit value) decreases in no step other than a panic_button
\* time-warp; a successful ping_heartbeat, and a create_vault that overwrites
\* an existing vault, leave it at least what it was.
C11_NeverBackward ==
    [][\A t \in Targets :
        (/\ Has(vault, t) /\ Has(vault', t)
         /\ ULt(vault'[t].last_heartbeat, vault[t].last_heartbeat)) =>
            (last'.op = "panic_button" /\ last'.target = t)]_vars

\* C12: witness_vote_medical and panic_button change state only when the
\* signer is, at call time, in the target's stored circle.  A call that passes
\* require_auth fails with "No Circle found" when the target has no circle
\* record and with "Not a witness" when the signer is not in it, and then
\* the emergency record, the panic counter and the vault are unchanged; an
\* account that a later assign_witnesses left out can no longer vote.
InCircle(a, t) ==
    Has(witnesses, t) /\ \E i \in DOMAIN witnesses[t] : witnesses[t][i] = a
IsVote == last.op \in {"witness_vote_medical", "panic_button"}
C12_VoteOutcome ==
    \A t \in Targets :
        (IsVote /\ last.target = t /\ last.res # "Unauthorized") =>
            /\ (~Has(witnesses, t) => last.res = "No Circle found")
            /\ (Has(witnesses, t) /\ ~InCircle(last.signer, t)
                    => last.res = "Not a witness")
            /\ (last.res = OK => InCircle(last.signer, t))
C12_OnlyMembersWrite ==
    \A t \in Targets :
        /\ (/\ last'.op \in {"witness_vote_medical", "panic_button"}
            /\ last'.target = t
            /\ last'.res \in {"No Circle found", "Not a witness"}) =>
                /\ emergency' = emergency
                /\ panic_votes' = panic_votes
                /\ vault' = vault
        /\ (\/ PanicVotesOf(t)' # PanicVotesOf(t)
            \/ /\ Has(emergency, t)
               /\ emergency'[t].votes_collected # emergency[t].votes_collected) =>
                /\ last'.op \in {"witness_vote_medical", "panic_button"}
                /\ InCircle(last'.signer, t)
C12_CircleGate == []C12_VoteOutcome /\ [][C12_OnlyMembersWrite]_vars

\* C12 witness: B, named in an earlier circle under which panic votes were
\* cast, calls panic_button after the owner stored the empty circle, and is
\* refused.
C12_Witness ==
    \E t \in Targets :
        /\ Called("panic_button", t) /\ last.signer = "B"
        /\ last.res = "Not a witness"
        /\ Has(witnesses, t) /\ witnesses[t] = << >>
        /\ PanicVotesOf(t) >= 1

\* C13 (as claimed): the only step that takes a vault's is_frozen from TRUE to
\* FALSE is a successful ping_heartbeat by the owner.
C13_OnlyPingUnfreezes ==
    [][\A t \in Targets :
        (/\ Has(vault, t) /\ vault[t].is_frozen
         /\ Has(vault', t) /\ ~vault'[t].is_frozen) =>
            /\ last'.op = "ping_heartbeat" /\ last'.target = t
            /\ last'.signer = t /\ last'.res = OK]_vars

\* C13 (amended): the only steps that take a vault's is_frozen from TRUE to
\* FALSE are a successful ping_heartbeat and a successful create_vault, both
\* signed by the owner (create_vault overwrites the vault with
\* is_frozen = FALSE); no step removes a frozen vault.
C13_OwnerUnfreezes ==
    [][\A t \in Targets :
        (Has(vault, t) /\ vault[t].is_frozen) =>
            /\ Has(vault', t)
            /\ ~vault'[t].is_frozen =>
                /\ last'.op \in {"ping_heartbeat", "create_vault"}
                /\ last'.target = t /\ last'.signer = t /\ last'.res = OK]_vars

\* C13 witness: the owner has called create_vault, naming heir B, on a vault
\* that four panic votes had reached; the new vault is not frozen.
C13_Witness ==
    \E t \in Targets :
        /\ Succeeded("create_vault", t) /\ last.signer = t
        /\ PanicVotesOf(t) = 4
        /\ Vault(t).heir = "B" /\ ~Vault(t).is_frozen

\* C14 (as claimed): at the panic_button threshold transition (a circle
\* member's authorized call that takes the counter from 2 to 3 on an existing
\* vault), for every clock value the call succeeds and stores
\* last_heartbeat = now - 14,947,200 as a number that did not underflow or wrap
\* (it is not below zero), so that now - last_heartbeat = 14,947,200 and
\* exactly 604,800 seconds remain before the threshold of claim_legacy.
C14_ExactWarp ==
    [][\A t \in Targets :
        (/\ last'.op = "panic_button" /\ last'.target = t
         /\ last'.res # "Unauthorized" /\ InCircle(last'.signer, t)
         /\ PanicVotesOf(t) = PANIC_THRESHOLD - 1
         /\ Has(vault, t)) =>
            /\ last'.res = OK
            /\ Has(vault', t) /\ vault'[t].is_frozen
            /\ vault'[t].last_heartbeat = now - (DEADMAN_LIMIT - RESIDUAL)
            /\ vault'[t].last_heartbeat >= 0
            /\ DEADMAN_LIMIT - (now - vault'[t].last_heartbeat) = RESIDUAL]_vars

\* C15: claim_legacy never writes: after every call, successful or failed,
\* the vault and every other record (and the clock) are as before; and a vault
\* on which a claim signed by the stored heir would succeed stays so in every
\* step that leaves the vault record as it is, the clock standing or advancing,
\* so a claim repeated after a successful one succeeds again.
Claimable(t) ==
    Has(vault, t) /\ ENABLED (claim_legacy(vault[t].heir, t) /\ Unrecorded /\ last'.res = OK)

C15_NoWrite ==
    last'.op = "claim_legacy" => store' = store /\ now' = now

C15_StaysClaimable ==
    \A t \in Targets :
        (Claimable(t) /\ Has(vault', t) /\ vault'[t] = vault[t]) => Claimable(t)'

C15_ClaimReadOnly == [][C15_NoWrite]_vars /\ [][C15_StaysClaimable]_vars

\* C15 witness: a claim signed by heir B has succeeded at 15,552,001 on a vault
\* whose last_heartbeat is 0, one second after the first instant at which it
\* could, and the vault is still locked and unfrozen.
C15_Witness ==
    \E t \in Targets :
        /\ Succeeded("claim_legacy", t) /\ last.signer = "B" /\ ByHeir(t)
        /\ now = DEADMAN_LIMIT + 1 /\ Vault(t).last_heartbeat = 0
        /\ Vault(t).is_locked /\ ~Vault(t).is_frozen

\* C16: votes are counted per call.  With B the only voter (SoloSpec), every
\* call B makes as a circle member is accepted however often B has voted
\* before (a medical vote whenever an emergency record exists, a panic vote
\* whenever it does not fail at the threshold for want of a vault or on the
\* time-warp subtraction) and adds exactly 1 to the counter; the third such
\* call sets is_unlocked (medical) or freezes and time-warps the vault (panic),
\* so a counter of 3 cast by B alone has unlocked the emergency.
C16_EveryCallCounts ==
    \A t \in Targets :
        /\ (/\ last'.op = "witness_vote_medical" /\ last'.target = t
            /\ last'.signer = SoloVoter /\ InCircle(SoloVoter, t) /\ Has(emergency, t)) =>
               /\ last'.res = OK
               /\ emergency'[t].votes_collected = emergency[t].votes_collected + 1
               /\ emergency[t].votes_collected = MEDICAL_THRESHOLD - 1 =>
                      emergency'[t].is_unlocked
        /\ (/\ last'.op = "panic_button" /\ last'.target = t
            /\ last'.signer = SoloVoter /\ InCircle(SoloVoter, t)) =>
               /\ last'.res \in {OK, "Vault not found", "attempt to subtract with overflow"}
               /\ last'.res = OK =>
                      /\ PanicVotesOf(t)' = PanicVotesOf(t) + 1
                      /\ PanicVotesOf(t) = PANIC_THRESHOLD - 1 =>
                             /\ vault'[t].is_frozen
                             /\ vault'[t].last_heartbeat = USub(now, time_warp)

C16_SoloQuorum ==
    \A t \in Targets :
        (Has(emergency, t) /\ emergency[t].votes_collected >= MEDICAL_THRESHOLD) =>
            emergency[t].is_unlocked

C16_PerCall == []C16_SoloQuorum /\ [][C16_EveryCallCounts]_vars

\* C16 witness: B, the only account that has voted, has made its third panic
\* call, which froze the vault, and its three medical votes have unlocked the
\* emergency.
C16_Witness ==
    \E t \in Targets :
        /\ Succeeded("panic_button", t) /\ last.signer = SoloVoter
        /\ PanicVotesOf(t) = PANIC_THRESHOLD /\ Has(vault, t) /\ Vault(t).is_frozen
        /\ Has(emergency, t) /\ emergency[t].votes_collected = MEDICAL_THRESHOLD
        /\ emergency[t].is_unlocked

\* C17: release safety over all interleavings of owner, heir and witness
\* calls (AuditSpec keeps the call history).  Whenever claim_legacy has
\* succeeded at clock time t = now: the owner's last successful ping_heartbeat
\* or create_vault for that vault is not in (t - 604,800, t]; and if it is in
\* (t - 15,552,000, t - 604,800], then a panic_button with the counter at 3 or
\* more was executed after it, at or before t - 604,800.
C17_ReleaseSafety ==
    \A t \in Targets :
        Succeeded("claim_legacy", t) =>
            \A c \in owner_at[t] :
                /\ ~(now - RESIDUAL < c /\ c <= now)
                /\ (now - DEADMAN_LIMIT < c /\ c <= now - RESIDUAL) =>
                       \E w \in warp_at[t] : c <= w /\ w <= now - RESIDUAL

\* C17 witness: the owner's last call was at 14,947,200, the panic counter
\* reached the threshold at 14,947,201, and the heir's claim has succeeded at
\* 15,552,001, exactly 604,800 seconds after the time-warp.
C17_Witness ==
    \E t \in Targets :
        /\ Succeeded("claim_legacy", t) /\ ByHeir(t)
        /\ now = DEADMAN_LIMIT + 1
        /\ owner_at[t] = {DEADMAN_LIMIT - RESIDUAL}
        /\ warp_at[t] = {DEADMAN_LIMIT - RESIDUAL + 1}

\* C18: a freeze can only come from quorum: in every reachable state a vault
\* with is_frozen = TRUE belongs to an account whose panic counter is at
\* least 3, and every account whose panic counter is at least 3 has a vault.
C18_FreezeFromQuorum ==
    \A t \in Targets :
        /\ (Has(vault, t) /\ vault[t].is_frozen) => PanicVotesOf(t) >= PANIC_THRESHOLD
        /\ PanicVotesOf(t) >= PANIC_THRESHOLD => Has(vault, t)

\* C18 witness: the vault is frozen, the counter stands at exactly 3 and the
\* host is between invocations.
C18_Witness ==
    \E t \in Targets :
        /\ Ready /\ Has(vault, t) /\ Vault(t).is_frozen
        /\ PanicVotesOf(t) = PANIC_THRESHOLD

\* C19: in every reachable state every emergency record has is_unlocked
\* exactly when votes_collected >= 3; a record starts at 0 votes, locked, in
\* a successful declare_emergency; votes_collected never decreases and changes
\* only by +1, in a successful witness_vote_medical for that account.  (The
\* count is a u32; the model follows it up to MaxMedicalVotes, 2^32 votes away
\* from its width.)
C19_UnlockedAtThree ==
    \A t \in Targets :
        Has(emergency, t) =>
            (emergency[t].is_unlocked = (emergency[t].votes_collected >= MEDICAL_THRESHOLD))

C19_CountStep ==
    \A t \in Targets :
        /\ Has(emergency, t) =>
              /\ Has(emergency', t)
              /\ emergency'[t].votes_collected >= emergency[t].votes_collected
              /\ emergency'[t].votes_collected # emergency[t].votes_collected =>
                    /\ emergency'[t].votes_collected = emergency[t].votes_collected + 1
                    /\ last'.op = "witness_vote_medical" /\ last'.target = t
                    /\ last'.res = OK
        /\ (~Has(emergency, t) /\ Has(emergency', t)) =>
              /\ last'.op = "declare_emergency" /\ last'.target = t /\ last'.res = OK
              /\ emergency'[t].votes_collected = 0 /\ ~emergency'[t].is_unlocked

C19_MedicalCount == []C19_UnlockedAtThree /\ [][C19_CountStep]_vars

\* C19 witness: the third medical vote has just been counted and the record
\* is unlocked.
C19_Witness ==
    \E t \in Targets :
        /\ Succeeded("witness_vote_medical", t)
        /\ emergency[t].votes_collected = MEDICAL_THRESHOLD /\ emergency[t].is_unlocked

\* C20 (as claimed): in every reachable state every existing vault has
\* last_heartbeat <= now (as unsigned 64-bit numbers), so the subtraction
\* now - last_heartbeat of claim_legacy does not underflow.
C20_HeartbeatNotAhead ==
    \A t \in Targets :
        Has(vault, t) =>
            /\ ~ULt(now, vault[t].last_heartbeat)
            /\ ~Underflows(now, vault[t].last_heartbeat)
====
